---- MODULE Spec2Model ----
(***************************************************************************)
(* Model of newspaper_receipe.py: main() reads a table of articles and     *)
(* passes it through seven table transforms, in a fixed order.             *)
(*                                                                         *)
(* Text is a sequence of one-character strings.  A table (DataFrame) is a  *)
(* sequence of rows; a row is a function from column names to cells, and a *)
(* missing cell (pandas' NaN) is a column name outside the row's DOMAIN.   *)
(* The columns of the table are kept in the variable columns, so a row     *)
(* holds a NaN exactly when its DOMAIN is not all of columns.              *)
(***************************************************************************)
EXTENDS Integers, Sequences, FiniteSets, TLC

VARIABLES
    filename,       \* the argument of main
    csv,            \* the rows of the file that pd.read_csv(filename) reads
    pc,             \* the statement of main that runs next, "done" or "aborted"
    df,             \* main's local df
    columns,        \* df.columns
    index,          \* what keys df: "RangeIndex", then "uid"
    newspaper_uid,  \* main's local newspaper_uid
    log,            \* the functions entered so far (each logs as it starts)
    raised,         \* the exception that ended main, <<>> while there is none
    output,         \* <<>>, or <<the table main returned and the script printed>>
    run,            \* 1 for the first invocation, 2 for a second one on the same file
    first           \* the output of the first invocation once a second one started

vars == <<filename, csv, pc, df, columns, index, newspaper_uid, log, raised,
          output, run, first>>

------------------------------------------------------------------------------
(* Bounds and the inputs of the model *)

MaxRows == 2

LF == "\n"
CR == "\r"
SP == " "

ascii_lowercase == {"a", "b", "d", "e", "h", "l"}
ascii_uppercase == {"A", "B"}
digits == {"1", "2"}
whitespace == {SP, LF, CR}

\* file names given to main: empty, without '_', with two '_'
Filenames ==
    { <<>>,
      <<"e", "l">>,
      <<"e", "l", "_", "1", "_", "2">> }

\* uri cells: a slug after the last '/', a trailing '/' without authority,
\* an unbalanced '[' in the authority
URIs ==
    { <<"h", ":", "/", "/", "e", "/", "a", "-", "b">>,
      <<"e", "/">>,
      <<"h", ":", "/", "/", "[", "e", "/", "b">> }

Titles == { <<"A", SP, "b">> }

Bodies ==
    { <<"a", LF, "a">>,
      <<"A", CR, "1">> }

Dates == { <<"d">> }

\* A cell of the file: <<>> when the field is empty, <<v>> when it holds v.
CellsOf(S) == {<<>>} \cup {<<v>> : v \in S}

Cell(name, c) == [k \in (IF c = <<>> THEN {} ELSE {name}) |-> c[1]]

InputColumns == {"uri", "title", "body", "date"}

InputRows ==
    { Cell("uri", u) @@ Cell("title", t) @@ Cell("body", b) @@ Cell("date", d) :
        u \in CellsOf(URIs), t \in CellsOf(Titles),
        b \in CellsOf(Bodies), d \in CellsOf(Dates) }

InputTables == UNION { [1..n -> InputRows] : n \in 1..MaxRows }

------------------------------------------------------------------------------
(* Python's str and list operations *)

isna(row, column) == column \notin DOMAIN row

\* df[column] = value on one row
SetCell(row, column, value) ==
    [c \in DOMAIN row \cup {column} |-> IF c = column THEN value ELSE row[c]]

Contains(s, c) == \E i \in 1..Len(s) : s[i] = c

\* s.find(c), 1-based; 0 when c is not in s
Find(s, c) ==
    IF Contains(s, c)
    THEN CHOOSE i \in 1..Len(s) : s[i] = c /\ \A j \in 1..(i - 1) : s[j] # c
    ELSE 0

\* s.split(sep) for a one-character sep
RECURSIVE split(_, _)
split(s, sep) ==
    LET i == Find(s, sep)
    IN  IF i = 0
        THEN <<s>>
        ELSE <<SubSeq(s, 1, i - 1)>> \o split(SubSeq(s, i + 1, Len(s)), sep)

\* sep.join(words)
RECURSIVE join(_, _)
join(sep, words) ==
    IF Len(words) = 0 THEN <<>>
    ELSE IF Len(words) = 1 THEN words[1]
    ELSE words[1] \o sep \o join(sep, Tail(words))

isalpha(token) ==
    /\ Len(token) > 0
    /\ \A i \in 1..Len(token) : token[i] \in ascii_lowercase \cup ascii_uppercase

lower(token) ==
    [i \in 1..Len(token) |->
        CASE token[i] = "A" -> "a"
          [] token[i] = "B" -> "b"
          [] OTHER -> token[i]]

------------------------------------------------------------------------------
(* _extract_newspaper_uid, _add_newspaper_uid_column *)

\* the name cut at its last '_' instead of its first
_extract_newspaper_uid_rsplit(name) ==
    LET parts == split(name, "_")
    IN  IF Len(parts) = 1 THEN name
        ELSE join(<<"_">>, SubSeq(parts, 1, Len(parts) - 1))

_extract_newspaper_uid(name) == split(name, "_")[1]

_add_newspaper_uid_column(table, uid) ==
    [i \in 1..Len(table) |-> SetCell(table[i], "newspaper_uid", uid)]

------------------------------------------------------------------------------
(* _extract_host: urllib.parse.urlparse(uri).netloc                          *)
(* The uris of the model hold no ']', no '?', no '#' and no control          *)
(* character, so urlsplit's stripping and its bracketed-host check are not   *)
(* modelled.                                                                 *)

scheme_chars == ascii_lowercase \cup ascii_uppercase \cup digits \cup {"+", "-", "."}

\* the url once urlsplit has taken "scheme:" off it
AfterScheme(url) ==
    LET i == Find(url, ":")
    IN  IF /\ i > 1
           /\ url[1] \in ascii_lowercase \cup ascii_uppercase
           /\ \A j \in 1..(i - 1) : url[j] \in scheme_chars
        THEN SubSeq(url, i + 1, Len(url))
        ELSE url

\* _splitnetloc(url, 2): up to the first of '/', '?', '#'
netloc(uri) ==
    LET url == AfterScheme(uri)
        rest == SubSeq(url, 3, Len(url))
        ends == {i \in 1..Len(rest) : rest[i] \in {"/", "?", "#"}}
        delim == IF ends = {} THEN Len(rest) + 1
                 ELSE CHOOSE i \in ends : \A j \in ends : i <= j
    IN  IF Len(url) >= 2 /\ SubSeq(url, 1, 2) = <<"/", "/">>
        THEN SubSeq(rest, 1, delim - 1)
        ELSE <<>>

\* ValueError("Invalid IPv6 URL")
InvalidIPv6(uri) == Contains(netloc(uri), "[") # Contains(netloc(uri), "]")

\* df['uri'].apply(lambda uri: urlparse(uri).netloc) ends with the exception of
\* the first row that raises one; urlparse(NaN) decodes its argument, and a
\* float has no decode
_extract_host_raises(table) ==
    LET bad == {i \in 1..Len(table) :
                    isna(table[i], "uri") \/ InvalidIPv6(table[i]["uri"])}
        first_bad == CHOOSE i \in bad : \A j \in bad : i <= j
    IN  IF bad = {} THEN <<>>
        ELSE IF isna(table[first_bad], "uri") THEN <<"AttributeError">>
        ELSE <<"ValueError">>

_extract_host(table) ==
    [i \in 1..Len(table) |-> SetCell(table[i], "host", netloc(table[i]["uri"]))]

------------------------------------------------------------------------------
(* _fill_nan_data *)

\* the pattern without its '$': the first run of characters other than '/'
str_extract_unanchored(uri) ==
    LET starts == {i \in 1..Len(uri) : uri[i] # "/"}
        start == CHOOSE i \in starts : \A j \in starts : i <= j
        slashes == {i \in start..Len(uri) : uri[i] = "/"}
        stop == IF slashes = {} THEN Len(uri) + 1
                ELSE CHOOSE i \in slashes : \A j \in slashes : i <= j
    IN  IF starts = {} THEN <<>> ELSE <<SubSeq(uri, start, stop - 1)>>

\* Series.str.extract(r'(?P<missing_titles>[^/]+)$') on one uri: <<the match>>,
\* or <<>> (NaN) when nothing matches.  [^/]+ runs to the end of the uri, so
\* the match starts after the last '/'.
str_extract(uri) ==
    LET slashes == {i \in 1..Len(uri) : uri[i] = "/"}
        start == IF slashes = {} THEN 1
                 ELSE 1 + CHOOSE i \in slashes : \A j \in slashes : j <= i
    IN  IF start > Len(uri) THEN <<>> ELSE <<SubSeq(uri, start, Len(uri))>>

\* the cell of missing_titles for one row of df[missing_titles_mask]: NaN
\* for a NaN uri
missing_title(row) == IF isna(row, "uri") THEN <<>> ELSE str_extract(row["uri"])

\* applymap(lambda title: title.split('-')) calls split on every cell, a NaN
\* (a float) included
_fill_nan_data_raises(table) ==
    IF \E i \in 1..Len(table) : isna(table[i], "title") /\ missing_title(table[i]) = <<>>
    THEN <<"AttributeError">>
    ELSE <<>>

_fill_nan_data(table) ==
    [i \in 1..Len(table) |->
        IF isna(table[i], "title")
        THEN SetCell(table[i], "title",
                     join(<<SP>>, split(missing_title(table[i])[1], "-")))
        ELSE table[i]]

------------------------------------------------------------------------------
(* _generate_uids_for_rows *)

(* hashlib.md5(bytes(row['uri'].encode())).hexdigest(): MD5 (RFC 1321) on *)
(* 32-bit words, each kept as <<high 16 bits, low 16 bits>>.               *)

\* str.encode(): the UTF-8 byte of each character of the model
ord(c) ==
    CASE c = "a" -> 97  [] c = "b" -> 98  [] c = "d" -> 100 [] c = "e" -> 101
      [] c = "h" -> 104 [] c = "l" -> 108 [] c = "A" -> 65  [] c = "B" -> 66
      [] c = "1" -> 49  [] c = "2" -> 50  [] c = SP -> 32   [] c = LF -> 10
      [] c = CR -> 13   [] c = ":" -> 58  [] c = "/" -> 47  [] c = "-" -> 45
      [] c = "[" -> 91  [] c = "]" -> 93  [] c = "_" -> 95  [] c = "+" -> 43
      [] c = "." -> 46  [] c = "?" -> 63  [] c = "#" -> 35

RECURSIVE And16(_, _)
And16(a, b) ==
    IF a = 0 \/ b = 0 THEN 0
    ELSE (a % 2) * (b % 2) + 2 * And16(a \div 2, b \div 2)

Or16(a, b) == a + b - And16(a, b)
Xor16(a, b) == a + b - 2 * And16(a, b)

AND(x, y) == <<And16(x[1], y[1]), And16(x[2], y[2])>>
OR(x, y) == <<Or16(x[1], y[1]), Or16(x[2], y[2])>>
XOR(x, y) == <<Xor16(x[1], y[1]), Xor16(x[2], y[2])>>
NOT(x) == <<65535 - x[1], 65535 - x[2]>>

\* addition modulo 2^32
ADD(x, y) ==
    LET lo == x[2] + y[2]
        hi == x[1] + y[1] + (lo \div 65536)
    IN  <<hi % 65536, lo % 65536>>

\* rotation to the left by n bits, 0 <= n < 32
ROTL(x, n) ==
    LET w == IF n >= 16 THEN <<x[2], x[1]>> ELSE x
        k == n % 16
    IN  <<((w[1] * (2^k)) % 65536) + (w[2] \div (2^(16 - k))),
          ((w[2] * (2^k)) % 65536) + (w[1] \div (2^(16 - k)))>>

\* floor(2^32 * abs(sin(i + 1))), i = 0..63
md5_K ==
    <<
      <<55146, 42104>>, <<59591, 46934>>, <<9248, 28891>>, <<49597, 52974>>,
      <<62844, 4015>>, <<18311, 50730>>, <<43056, 17939>>, <<64838, 38145>>,
      <<27008, 39128>>, <<35652, 63407>>, <<65535, 23473>>, <<35164, 55230>>,
      <<27536, 4386>>, <<64920, 29075>>, <<42617, 17294>>, <<18868, 2081>>,
      <<63006, 9570>>, <<49216, 45888>>, <<9822, 23121>>, <<59830, 51114>>,
      <<54831, 4189>>, <<580, 5203>>, <<55457, 59009>>, <<59347, 64456>>,
      <<8673, 52710>>, <<49975, 2006>>, <<62677, 3463>>, <<17754, 5357>>,
      <<43491, 59653>>, <<64751, 41976>>, <<26479, 729>>, <<36138, 19594>>,
      <<65530, 14658>>, <<34673, 63105>>, <<28061, 24866>>, <<64997, 14348>>,
      <<42174, 59972>>, <<19422, 53161>>, <<63163, 19296>>, <<48831, 48240>>,
      <<10395, 32454>>, <<60065, 10234>>, <<54511, 12421>>, <<1160, 7429>>,
      <<55764, 53305>>, <<59099, 39397>>, <<8098, 31992>>, <<50348, 22117>>,
      <<62505, 8772>>, <<17194, 65431>>, <<43924, 9127>>, <<64659, 41017>>,
      <<25947, 22979>>, <<36620, 52370>>, <<65519, 62589>>, <<34180, 24017>>,
      <<28584, 32335>>, <<65068, 59104>>, <<41729, 17172>>, <<19976, 4513>>,
      <<63315, 32386>>, <<48442, 62005>>, <<10967, 53947>>, <<60294, 54161>> >>

\* the shift of each round
md5_S ==
    << 7, 12, 17, 22,  7, 12, 17, 22,  7, 12, 17, 22,  7, 12, 17, 22,
       5,  9, 14, 20,  5,  9, 14, 20,  5,  9, 14, 20,  5,  9, 14, 20,
       4, 11, 16, 23,  4, 11, 16, 23,  4, 11, 16, 23,  4, 11, 16, 23,
       6, 10, 15, 21,  6, 10, 15, 21,  6, 10, 15, 21,  6, 10, 15, 21 >>

\* A, B, C, D at the start: 67452301, efcdab89, 98badcfe, 10325476
md5_init == << <<26437, 8961>>, <<61389, 43913>>, <<39098, 56574>>, <<4146, 21622>> >>

\* the message padded to a multiple of 64 bytes: 0x80, zeros, and the
\* length in bits as 8 bytes, low byte first
md5_pad(bytes) ==
    LET n == Len(bytes)
        zeros == (55 - n) % 64
        bits == 8 * n
    IN  bytes \o <<128>> \o [i \in 1..zeros |-> 0]
          \o << bits % 256, (bits \div 256) % 256, (bits \div 65536) % 256,
                (bits \div 16777216) % 256, 0, 0, 0, 0 >>

\* word g (0..15) of the block that starts after byte off, low byte first
md5_word(padded, off, g) ==
    LET p == off + 4 * g
    IN  <<padded[p + 3] + 256 * padded[p + 4], padded[p + 1] + 256 * padded[p + 2]>>

\* round i (0..63) on the state st = <<A, B, C, D>>
md5_step(padded, off, st, i) ==
    LET A == st[1]
        B == st[2]
        C == st[3]
        D == st[4]
        F == IF i < 16 THEN OR(AND(B, C), AND(NOT(B), D))
             ELSE IF i < 32 THEN OR(AND(D, B), AND(NOT(D), C))
             ELSE IF i < 48 THEN XOR(B, XOR(C, D))
             ELSE XOR(C, OR(B, NOT(D)))
        g == IF i < 16 THEN i
             ELSE IF i < 32 THEN (5 * i + 1) % 16
             ELSE IF i < 48 THEN (3 * i + 5) % 16
             ELSE (7 * i) % 16
        sum == ADD(ADD(F, A), ADD(md5_K[i + 1], md5_word(padded, off, g)))
    IN  <<D, ADD(B, ROTL(sum, md5_S[i + 1])), B, C>>

\* rounds from..(to - 1) on st, the first half of them and then the second
RECURSIVE md5_rounds(_, _, _, _, _)
md5_rounds(padded, off, st, from, to) ==
    IF to = from + 1 THEN md5_step(padded, off, st, from)
    ELSE LET mid == (from + to) \div 2
             half == md5_rounds(padded, off, st, from, mid)
         IN  IF Len(half) = 4 THEN md5_rounds(padded, off, half, mid, to) ELSE half

\* the blocks from byte off on, one after the other
RECURSIVE md5_blocks(_, _, _)
md5_blocks(padded, off, st) ==
    IF off >= Len(padded) THEN st
    ELSE LET r == md5_rounds(padded, off, st, 0, 64)
         IN  md5_blocks(padded, off + 64,
                        [j \in 1..4 |-> ADD(st[j], r[j])])

hexdigits == <<"0", "1", "2", "3", "4", "5", "6", "7",
               "8", "9", "a", "b", "c", "d", "e", "f">>

hex(byte) == <<hexdigits[(byte \div 16) + 1], hexdigits[(byte % 16) + 1]>>

\* the four bytes of a word, low byte first, in hexadecimal
hex_word(x) ==
    hex(x[2] % 256) \o hex(x[2] \div 256) \o hex(x[1] % 256) \o hex(x[1] \div 256)

md5(s) ==
    LET st == md5_blocks(md5_pad([k \in 1..Len(s) |-> ord(s[k])]), 0, md5_init)
    IN  hex_word(st[1]) \o hex_word(st[2]) \o hex_word(st[3]) \o hex_word(st[4])

\* the digests of the uris of the model, computed once
md5_of_uri == [u \in URIs |-> md5(u)]

md5_hexdigest(s) == IF s \in URIs THEN md5_of_uri[s] ELSE md5(s)

\* row['uri'].encode() on a NaN: a float has no encode
_generate_uids_for_rows_raises(table) ==
    IF \E i \in 1..Len(table) : isna(table[i], "uri")
    THEN <<"AttributeError">>
    ELSE <<>>

\* the digest of row['title'] instead of row['uri']
_generate_uids_from_title(table) ==
    [i \in 1..Len(table) |-> SetCell(table[i], "uid", md5_hexdigest(table[i]["title"]))]

_generate_uids_for_rows(table) ==
    [i \in 1..Len(table) |-> SetCell(table[i], "uid", md5_hexdigest(table[i]["uri"]))]

------------------------------------------------------------------------------
(* _remove_new_lines_from_body *)

\* letter.replace('\n', '')
replace_newline(letter) == IF letter = LF THEN <<>> ELSE <<letter>>

\* list(body), the replace on every letter, ''.join
strip_body(body) == join(<<>>, [k \in 1..Len(body) |-> replace_newline(body[k])])

\* list(body) on a NaN: a float is not iterable
_remove_new_lines_from_body_raises(table) ==
    IF \E i \in 1..Len(table) : isna(table[i], "body")
    THEN <<"TypeError">>
    ELSE <<>>

_remove_new_lines_from_body(table) ==
    [i \in 1..Len(table) |-> SetCell(table[i], "body", strip_body(table[i]["body"]))]

------------------------------------------------------------------------------
(* _tokenize_column *)

\* stopwords.words('spanish'), the words over the letters of the model
stop_words ==
    { <<"a">>, <<"e">>, <<"e", "l">>, <<"l", "a">>, <<"d", "e">>,
      <<"a", "l">>, <<"l", "e">>, <<"d", "e", "l">> }

\* nltk.word_tokenize on text of letters, digits and whitespace: the maximal
\* runs of characters that are not whitespace
RECURSIVE word_tokenize(_)
word_tokenize(text) ==
    IF Len(text) = 0 THEN <<>>
    ELSE IF text[1] \in whitespace THEN word_tokenize(Tail(text))
    ELSE LET gaps == {i \in 1..Len(text) : text[i] \in whitespace}
             stop == IF gaps = {} THEN Len(text) + 1
                     ELSE CHOOSE i \in gaps : \A j \in gaps : i <= j
         IN  <<SubSeq(text, 1, stop - 1)>>
                 \o word_tokenize(SubSeq(text, stop, Len(text)))

\* the chain of lambdas on one row's text
n_tokens(text) ==
    LET tokens == word_tokenize(text)
        alpha == SelectSeq(tokens, isalpha)
        lowered == [k \in 1..Len(alpha) |-> lower(alpha[k])]
        valid_words == SelectSeq(lowered, LAMBDA word : word \notin stop_words)
    IN  Len(valid_words)

\* df.dropna(): the rows without a NaN in any column
dropna(table, cols) == {i \in 1..Len(table) : cols \subseteq DOMAIN table[i]}

\* When dropna() leaves no row, the chain of apply calls works on an empty
\* frame and ends building a Series of no value over the frame's columns.
\* When it drops some rows, the assignment reindexes the counts by df's index,
\* which needs the uids of the rows kept (the index reindexed from) to be
\* distinct.
_tokenize_column_raises(table, cols) ==
    LET kept == dropna(table, cols)
    IN  IF kept = {} THEN <<"ValueError">>
        ELSE IF /\ kept # 1..Len(table)
                /\ \E i, j \in kept : i # j /\ table[i]["uid"] = table[j]["uid"]
        THEN <<"ValueError">>
        ELSE <<>>

\* df['n_tokens_<column_name>'] = tokenize, the counts of the rows dropna kept.
\* With no row dropped the two indexes are equal and the counts go in by
\* position.  Otherwise they go in by label: a row gets the count of the row
\* kept that has its uid, and NaN when no row kept has it.
_tokenize_column(table, cols, column_name) ==
    LET kept == dropna(table, cols)
        tokenize == [k \in kept |-> n_tokens(table[k][column_name])]
        labelled(i) == {k \in kept : table[k]["uid"] = table[i]["uid"]}
        name == "n_tokens_" \o column_name
    IN  [i \in 1..Len(table) |->
            IF kept = 1..Len(table) THEN SetCell(table[i], name, tokenize[i])
            ELSE IF labelled(i) = {} THEN table[i]
            ELSE SetCell(table[i], name, tokenize[CHOOSE k \in labelled(i) : TRUE])]

------------------------------------------------------------------------------
(* main *)

Init ==
    /\ filename \in Filenames
    /\ csv \in InputTables
    /\ pc = "_read_data"
    /\ df = <<>>
    /\ columns = {}
    /\ index = "RangeIndex"
    /\ newspaper_uid = <<>>
    /\ log = <<>>
    /\ raised = <<>>
    /\ output = <<>>
    /\ run = 1
    /\ first = <<>>

\* main catching the exception and returning the table as it stands
AbortReturningPartial(stage, exception) ==
    /\ pc' = "aborted"
    /\ raised' = exception
    /\ log' = Append(log, stage)
    /\ output' = <<df>>
    /\ UNCHANGED <<filename, csv, df, columns, index, newspaper_uid, run, first>>

\* an exception leaves main: nothing is returned, nothing is printed
Abort(stage, exception) ==
    /\ pc' = "aborted"
    /\ raised' = exception
    /\ log' = Append(log, stage)
    /\ UNCHANGED <<filename, csv, df, columns, index, newspaper_uid, output, run, first>>

\* a stage of main ends: df = stage(df)
Step(stage, next, table, cols, key) ==
    /\ pc' = next
    /\ df' = table
    /\ columns' = cols
    /\ index' = key
    /\ log' = Append(log, stage)
    /\ UNCHANGED <<filename, csv, newspaper_uid, raised, output, run, first>>

\* df = _read_data(filename): no file has the empty name
ReadData ==
    /\ pc = "_read_data"
    /\ IF filename = <<>>
       THEN Abort("_read_data", <<"FileNotFoundError">>)
       ELSE Step("_read_data", "_extract_newspaper_uid", csv, InputColumns, index)

\* newspaper_uid = _extract_newspaper_uid(filename)
ExtractNewspaperUid ==
    /\ pc = "_extract_newspaper_uid"
    /\ pc' = "_add_newspaper_uid_column"
    /\ newspaper_uid' = _extract_newspaper_uid(filename)
    /\ log' = Append(log, "_extract_newspaper_uid")
    /\ UNCHANGED <<filename, csv, df, columns, index, raised, output, run, first>>

\* df = _add_newspaper_uid_column(df, newspaper_uid)
AddNewspaperUidColumn ==
    /\ pc = "_add_newspaper_uid_column"
    /\ Step("_add_newspaper_uid_column", "_extract_host",
            _add_newspaper_uid_column(df, newspaper_uid),
            columns \cup {"newspaper_uid"}, index)

\* df = _extract_host(df)
ExtractHost ==
    /\ pc = "_extract_host"
    /\ IF _extract_host_raises(df) # <<>>
       THEN Abort("_extract_host", _extract_host_raises(df))
       ELSE Step("_extract_host", "_fill_nan_data", _extract_host(df),
                 columns \cup {"host"}, index)

\* df = _fill_nan_data(df)
FillNanData ==
    /\ pc = "_fill_nan_data"
    /\ IF _fill_nan_data_raises(df) # <<>>
       THEN Abort("_fill_nan_data", _fill_nan_data_raises(df))
       ELSE Step("_fill_nan_data", "_generate_uids_for_rows", _fill_nan_data(df),
                 columns, index)

\* df = _generate_uids_for_rows(df): df['uid'] = uids, then set_index('uid')
\* takes uid out of the columns and makes it the index
GenerateUidsForRows ==
    /\ pc = "_generate_uids_for_rows"
    /\ IF _generate_uids_for_rows_raises(df) # <<>>
       THEN Abort("_generate_uids_for_rows", _generate_uids_for_rows_raises(df))
       ELSE Step("_generate_uids_for_rows", "_remove_new_lines_from_body",
                 _generate_uids_for_rows(df), columns, "uid")

\* df = _remove_new_lines_from_body(df)
RemoveNewLinesFromBody ==
    /\ pc = "_remove_new_lines_from_body"
    /\ IF _remove_new_lines_from_body_raises(df) # <<>>
       THEN Abort("_remove_new_lines_from_body", _remove_new_lines_from_body_raises(df))
       ELSE Step("_remove_new_lines_from_body", "_tokenize_column_title",
                 _remove_new_lines_from_body(df), columns, index)

\* df = _tokenize_column(df, 'title')
TokenizeTitle ==
    /\ pc = "_tokenize_column_title"
    /\ IF _tokenize_column_raises(df, columns) # <<>>
       THEN Abort("_tokenize_column_title", _tokenize_column_raises(df, columns))
       ELSE Step("_tokenize_column_title", "_tokenize_column_body",
                 _tokenize_column(df, columns, "title"),
                 columns \cup {"n_tokens_title"}, index)

\* df = _tokenize_column(df, 'body')
TokenizeBody ==
    /\ pc = "_tokenize_column_body"
    /\ IF _tokenize_column_raises(df, columns) # <<>>
       THEN Abort("_tokenize_column_body", _tokenize_column_raises(df, columns))
       ELSE Step("_tokenize_column_body", "return",
                 _tokenize_column(df, columns, "body"),
                 columns \cup {"n_tokens_body"}, index)

\* return df, and print(main(args.filename))
Return ==
    /\ pc = "return"
    /\ pc' = "done"
    /\ output' = <<df>>
    /\ UNCHANGED <<filename, csv, df, columns, index, newspaper_uid, log, raised,
                   run, first>>

\* the script is run a second time on the same file
Rerun ==
    /\ pc = "done"
    /\ run = 1
    /\ run' = 2
    /\ first' = output
    /\ pc' = "_read_data"
    /\ df' = <<>>
    /\ columns' = {}
    /\ index' = "RangeIndex"
    /\ newspaper_uid' = <<>>
    /\ log' = <<>>
    /\ raised' = <<>>
    /\ output' = <<>>
    /\ UNCHANGED <<filename, csv>>

Next ==
    \/ ReadData
    \/ ExtractNewspaperUid
    \/ AddNewspaperUidColumn
    \/ ExtractHost
    \/ FillNanData
    \/ GenerateUidsForRows
    \/ RemoveNewLinesFromBody
    \/ TokenizeTitle
    \/ TokenizeBody
    \/ Return
    \/ Rerun

Spec == Init /\ [][Next]_vars

------------------------------------------------------------------------------
(* What the claims speak of *)

Last(s) == s[Len(s)]

\* the stage was entered and ran to its end
Completed(stage) ==
    \E k \in 1..Len(log) : log[k] = stage /\ ~(pc = "aborted" /\ k = Len(log))

\* the stage is the latest one entered
Latest(stage) == Len(log) > 0 /\ Last(log) = stage

\* the text after the last '/' of a uri
FinalSegment(uri) ==
    LET k == CHOOSE k \in 0..Len(uri) :
                /\ k = 0 \/ uri[k] = "/"
                /\ \A j \in (k + 1)..Len(uri) : uri[j] # "/"
    IN  SubSeq(uri, k + 1, Len(uri))

SpacesForDashes(segment) ==
    [k \in 1..Len(segment) |-> IF segment[k] = "-" THEN SP ELSE segment[k]]

\* a missing title that the uri can repair
Repairable(row) ==
    isna(row, "title") /\ ~isna(row, "uri") /\ FinalSegment(row["uri"]) # <<>>

\* a missing title that the uri cannot repair
Unrepairable(row) ==
    isna(row, "title") /\ ~isna(row, "uri") /\ FinalSegment(row["uri"]) = <<>>

Delete(text, chars) == SelectSeq(text, LAMBDA c : c \notin chars)

\* the words of a text: its maximal runs without whitespace, as <<from, to>>
Words(text) ==
    { w \in (1..Len(text)) \X (1..Len(text)) :
        /\ w[1] <= w[2]
        /\ \A k \in w[1]..w[2] : text[k] \notin whitespace
        /\ w[1] = 1 \/ text[w[1] - 1] \in whitespace
        /\ w[2] = Len(text) \/ text[w[2] + 1] \in whitespace }

\* the words that count: alphabetic, and no stopword once in lower case
Counted(text) ==
    { w \in Words(text) :
        /\ \A k \in w[1]..w[2] : text[k] \in ascii_lowercase \cup ascii_uppercase
        /\ lower(SubSeq(text, w[1], w[2])) \notin stop_words }

\* hashlib.md5(uri.encode()).hexdigest() of the uris of the model, as Python
\* prints them
PythonDigest(uri) ==
    CASE uri = <<"h", ":", "/", "/", "e", "/", "a", "-", "b">> ->
           <<"a","0","e","7","2","3","d","b","4","f","b","b","c","9","f","d","9","9","4","0","3","7","6","e","8","d","d","e","4","e","4","d">>
      [] uri = <<"e", "/">> ->
           <<"a","8","e","2","8","0","f","0","7","d","d","b","2","6","c","7","3","b","b","0","1","2","4","5","6","8","f","0","2","6","5","0">>
      [] uri = <<"h", ":", "/", "/", "[", "e", "/", "b">> ->
           <<"0","e","2","2","9","8","c","3","a","d","8","3","9","1","6","a","6","c","e","1","b","e","b","d","b","3","b","d","1","e","2","d">>

\* the first '_' of the name ends id, or the name has no '_' and is id
IsNewspaperUid(id, name) ==
    /\ Len(id) <= Len(name)
    /\ id = SubSeq(name, 1, Len(id))
    /\ ~Contains(id, "_")
    /\ Len(id) = Len(name) \/ name[Len(id) + 1] = "_"

------------------------------------------------------------------------------
(* The claims *)

\* C1: once _fill_nan_data has run, every row whose title was present holds
\* exactly that title, and every row whose title was missing and whose uri
\* ends in a non-empty final segment holds that segment with each '-' turned
\* into a space; no such row still misses its title.
C1_TitleRepaired ==
    Completed("_fill_nan_data") =>
        \A i \in 1..Len(csv) :
            /\ ~isna(csv[i], "title") =>
                    ~isna(df[i], "title") /\ df[i]["title"] = csv[i]["title"]
            /\ Repairable(csv[i]) =>
                    /\ ~isna(df[i], "title")
                    /\ df[i]["title"] = SpacesForDashes(FinalSegment(csv[i]["uri"]))

\* a row without a title got "a b" from ".../a-b", beside a row that kept its title
C1_Witness ==
    /\ pc = "_generate_uids_for_rows"
    /\ \E i, j \in 1..Len(csv) :
            /\ isna(csv[i], "title")
            /\ df[i]["title"] = <<"a", SP, "b">>
            /\ ~isna(csv[j], "title")

\* C2 (as claimed): once _tokenize_column has run on a column, a row is
\* without a count for it if and only if that column of the row is missing.
C2_CountMissingIffFieldMissing ==
    /\ Completed("_tokenize_column_title") =>
            \A i \in 1..Len(df) :
                isna(df[i], "n_tokens_title") <=> isna(df[i], "title")
    /\ Completed("_tokenize_column_body") =>
            \A i \in 1..Len(df) :
                isna(df[i], "n_tokens_body") <=> isna(df[i], "body")

\* C3 (as claimed): a run on a table whose only missing cells are bodies is
\* not aborted, and when it has returned, the rows without a body have no
\* n_tokens_body and have their newspaper_uid, host, title and uid.
C3_NullBodyRunCompletes ==
    ( /\ filename # <<>>
      /\ \E i \in 1..Len(csv) : isna(csv[i], "body")
      /\ \A i \in 1..Len(csv) :
            /\ {"uri", "title", "date"} \subseteq DOMAIN csv[i]
            /\ ~InvalidIPv6(csv[i]["uri"]) )
    => /\ pc # "aborted"
       /\ pc = "done" =>
            \A i \in 1..Len(csv) :
                isna(csv[i], "body") =>
                    /\ isna(output[1][i], "n_tokens_body")
                    /\ {"newspaper_uid", "host", "title", "uid"}
                            \subseteq DOMAIN output[1][i]

\* C4 (as claimed): _fill_nan_data does not raise on a row whose missing
\* title the uri cannot repair, and leaves that title missing.
C4_UnrepairableTitleStaysMissing ==
    \A i \in 1..Len(csv) :
        (Latest("_fill_nan_data") /\ Unrepairable(csv[i])) =>
            pc # "aborted" /\ isna(df[i], "title")

\* C5 (as claimed): once _remove_new_lines_from_body has run, every body is
\* the body read with its line feeds and carriage returns deleted, so it
\* holds neither and is no longer than the body read.
C5_NoLineBreakLeft ==
    Completed("_remove_new_lines_from_body") =>
        \A i \in 1..Len(csv) :
            /\ df[i]["body"] = Delete(csv[i]["body"], {LF, CR})
            /\ ~Contains(df[i]["body"], LF)
            /\ ~Contains(df[i]["body"], CR)
            /\ Len(df[i]["body"]) <= Len(csv[i]["body"])

\* C6 (as claimed): on a table where every row has a uri, _extract_host does
\* not abort the run: it gives every row a host, the empty one to a uri that
\* cannot be parsed.
C6_HostFailureIsRowLocal ==
    (Latest("_extract_host") /\ \A i \in 1..Len(csv) : ~isna(csv[i], "uri")) =>
        /\ pc # "aborted"
        /\ \A i \in 1..Len(csv) :
                /\ ~isna(df[i], "host")
                /\ InvalidIPv6(csv[i]["uri"]) => df[i]["host"] = <<>>

\* C7: once _generate_uids_for_rows has run, every row's uid is the MD5 hex
\* digest of its uri as Python computes it, rows with one uri have one uid,
\* the table has the rows it was read with and is keyed by uid; a second run
\* on the same file returns as many rows with the same uids.
C7_UidIsDigestOfUri ==
    /\ Completed("_generate_uids_for_rows") =>
            /\ index = "uid"
            /\ "uid" \notin columns
            /\ Len(df) = Len(csv)
            /\ \A i \in 1..Len(df) : df[i]["uid"] = PythonDigest(csv[i]["uri"])
            /\ \A i, j \in 1..Len(df) :
                    csv[i]["uri"] = csv[j]["uri"] => df[i]["uid"] = df[j]["uid"]
    /\ (run = 2 /\ pc = "done") =>
            /\ Len(output[1]) = Len(first[1])
            /\ \A i \in 1..Len(output[1]) : output[1][i]["uid"] = first[1][i]["uid"]

\* a second run has returned a table in which two rows with one uri share a uid
C7_Witness ==
    /\ run = 2
    /\ pc = "done"
    /\ Len(output[1]) = 2
    /\ csv[1]["uri"] = csv[2]["uri"]
    /\ csv[1] # csv[2]
    /\ output[1][1]["uid"] = first[1][2]["uid"]

\* the title after _fill_nan_data, the body after _remove_new_lines_from_body
RepairedTitle(row) ==
    IF isna(row, "title") THEN SpacesForDashes(FinalSegment(row["uri"]))
    ELSE row["title"]

NormalizedBody(row) == Delete(row["body"], {LF})

\* C8 (as claimed): in the table main returns, a count of a row is the number
\* of words of its repaired title (normalized body) that are alphabetic and,
\* in lower case, no stopword; it is a natural number, and 0 when the text
\* holds only whitespace or nothing.
C8_CountsOfReturnedTable ==
    pc = "done" =>
        \A i \in 1..Len(csv) :
            LET row == output[1][i]
                title == RepairedTitle(csv[i])
                body == NormalizedBody(csv[i])
            IN  /\ ~isna(row, "n_tokens_title") =>
                    /\ row["n_tokens_title"] \in Nat
                    /\ row["n_tokens_title"] = Cardinality(Counted(title))
                    /\ (\A k \in 1..Len(title) : title[k] \in whitespace) =>
                            row["n_tokens_title"] = 0
                /\ ~isna(row, "n_tokens_body") =>
                    /\ row["n_tokens_body"] \in Nat
                    /\ row["n_tokens_body"] = Cardinality(Counted(body))
                    /\ (\A k \in 1..Len(body) : body[k] \in whitespace) =>
                            row["n_tokens_body"] = 0

\* _extract_newspaper_uid on every name of up to three characters of 'e' and '_'
C9_ShortNames ==
    \A name \in UNION { [1..n -> {"e", "_"}] : n \in 0..3 } :
        IsNewspaperUid(_extract_newspaper_uid(name), name)

\* C9: the newspaper uid is the file name up to its first '_', the whole name
\* when it has none and empty for the empty name; it is computed once in a run
\* and every row carries it from _add_newspaper_uid_column on.
C9_NewspaperUid ==
    /\ C9_ShortNames
    /\ _extract_newspaper_uid(<<>>) = <<>>
    /\ Cardinality({k \in 1..Len(log) : log[k] = "_extract_newspaper_uid"}) <= 1
    /\ Completed("_extract_newspaper_uid") =>
            IsNewspaperUid(newspaper_uid, filename)
    /\ Completed("_add_newspaper_uid_column") =>
            \A i \in 1..Len(df) :
                ~isna(df[i], "newspaper_uid") /\ df[i]["newspaper_uid"] = newspaper_uid
    /\ pc = "done" =>
            \A i \in 1..Len(output[1]) :
                output[1][i]["newspaper_uid"] = _extract_newspaper_uid(filename)

\* main returned two rows read from "el_1_2", both stamped "el"
C9_Witness ==
    /\ pc = "done"
    /\ filename = <<"e", "l", "_", "1", "_", "2">>
    /\ Len(output[1]) = 2
    /\ \A i \in 1..2 : output[1][i]["newspaper_uid"] = <<"e", "l">>

\* C10: a run on a table with a null uri never gets past _extract_host, and a
\* run on a table with a null body never gets past
\* _remove_new_lines_from_body; an exception ends main in the stage that
\* raised it, with nothing returned; what main returns is the whole table.
C10_AbortOrFullTable ==
    /\ (\E i \in 1..Len(csv) : isna(csv[i], "uri")) =>
            /\ ~Completed("_extract_host")
            /\ output = <<>>
    /\ (\E i \in 1..Len(csv) : isna(csv[i], "body")) =>
            /\ ~Completed("_remove_new_lines_from_body")
            /\ output = <<>>
    /\ raised # <<>> <=> pc = "aborted"
    /\ pc = "aborted" => output = <<>>
    /\ output # <<>> =>
            /\ pc = "done"
            /\ output = <<df>>
            /\ Len(df) = Len(csv)
            /\ \A i \in 1..Len(df) :
                    {"uri", "title", "body", "newspaper_uid", "host", "uid"}
                        \subseteq DOMAIN df[i]

\* a null body reached _remove_new_lines_from_body, which raised: the run is
\* aborted there with nothing returned
C10_Witness ==
    /\ pc = "aborted"
    /\ Latest("_remove_new_lines_from_body")
    /\ raised = <<"TypeError">>
    /\ \E i \in 1..Len(csv) : isna(csv[i], "body")
    /\ output = <<>>

====
